---- MODULE Spec2Model ----
(***************************************************************************)
(* A model of frunk_utils: the ConsList container with its consuming,      *)
(* drain-on-drop iterator (src/src/cons_list.rs) and the traversal engine  *)
(* over HLists: for_each / map / map_to_list in their sync, sequential     *)
(* async and concurrent (join!) async forms (src/src/lib.rs,               *)
(* src/src/futures/*.rs).                                                  *)
(*                                                                         *)
(* Two state machines share the module.  IterSpec runs the container and   *)
(* its iterator (SliceSpec: with stores through the mutable slice view;    *)
(* TakeSpec: the unsafe per-slot primitive called directly), TravSpec runs *)
(* one traversal call.  Each specification     *)
(* leaves the other machine's variables at their idle values.              *)
(***************************************************************************)
EXTENDS Integers, Sequences, FiniteSets

\* ------------------------------------------------------------------ bounds

\* Longest list / HList that is built.
MaxLen == 3
\* Element values are 1..MaxVal.
MaxVal == 2
\* How often the executor polls one traversal future.
MaxPolls == 2
\* How many slots of one list are stored to through as_mut_slice().
MaxWrites == 2
\* How many direct calls of take_unchecked are made on one list.
MaxTakes == 2

Vals == 1..MaxVal

\* ------------------------------------------------------------------ state

VARIABLES
    \* --- cons_list.rs ---
    built,      \* the heads given to ConsList::cons, in the order of the calls
    list,       \* the slots of the Cons chain, first element first: records [val, armed]
                \* (an integer element has val in Vals; a Bomb has val 0 and its flag)
    phase,      \* "building" | "iter" | "draining" | "gone" | "leaked" | "aborted"
                \* (a list whose take_unchecked is called directly: "raw")
                \* (a list dropped without into_iter: "dropped" | "drop_aborted")
    alive,      \* Iter.alive: the Range [start, end) of slots not yet taken (0-based)
    takes,      \* per slot index: how often take_unchecked has read it
    held,       \* elements handed to the caller and not yet dropped: index -> element
    dropCount,  \* per slot index: how often the element's destructor has run
    frontOut,   \* the elements returned by next(), in order
    backOut,    \* the elements returned by next_back(), in order
    lastRet,    \* what the last next()/next_back() returned: "Some" | "None" | "-"
    drainLog,   \* the indices Iter::drop has taken and discarded, in order
    unwinding,  \* a panic is unwinding the caller's stack
    writes,     \* the elements stored through as_mut_slice(): index -> last value written
    counted,    \* what Iter::count() returned (-1: not called)
    \* --- lib.rs, futures/*.rs ---
    scheme,     \* "for_each" | "map" | "map_to_list"
    variant,    \* "sync" | "seq" | "seq_local" | "par" | "par_local"
    input,      \* the HList handed to the traversal: its element values in order
    tphase,     \* "created" | "polling" | "suspended" | "complete" | "panicked" | "dropped"
    cursor,     \* the position (1-based) the running poll has reached
    inv,        \* per position: "none" | "pending" | "done" | "dropped" | "panicked"
    res,        \* per position: the value its invocation returned (NoRes before)
    invPolls,   \* per position: how often its invocation future has been polled
    calls,      \* the operation's call log: [pos, arg] in the order call() ran
    completions,\* the positions in the order their invocations completed
    tpolls,     \* how often the traversal future has been polled
    result,     \* what the traversal returned (NoResult before)
    failure,    \* the panic payload that reached the traversal's caller (NoPanic before)
    pendingSeen,\* the positions whose invocation answered Pending in the latest poll
    opState,    \* the state of the operation value: the arguments it has recorded
    seen,       \* per position: the operation's state as its invocation found it
    \* --- ConsListT::take_unchecked called directly ---
    build,      \* "debug" (debug_assert! compiled in) | "release" (compiled out)
    rawOut      \* the direct calls so far: [idx, kind, elem, beyond]

iterVars == <<built, list, phase, alive, takes, held, dropCount, frontOut, backOut,
              lastRet, drainLog, unwinding, writes, counted>>
travVars == <<scheme, variant, input, tphase, cursor, inv, res, invPolls, calls,
              completions, tpolls, result, failure, pendingSeen, opState, seen>>
takeVars == <<build, rawOut>>
vars == <<iterVars, travVars, takeVars>>

Slots == 0..(MaxLen - 1)

\* ============================================================ cons_list.rs

\* ConsListT::LEN: 0 for Nil, 1 + Ts::LEN for Cons.
LEN(l) == Len(l)

\* (mutant) a Nil that takes up a slot of its own.
nilSlot == <<[val |-> 0, armed |-> FALSE]>>

\* ConsList::nil(): the empty chain.
nil == <<>>

\* (mutant) the head stored behind the tail.
consNodeBehind(head, tail) == tail \o <<head>>

\* ConsList::cons(head, tail): Cons(head, tail), the head in front.
consNode(head, tail) == <<head>> \o tail

\* (mutant) the read without the offset: head instead of head.add(i).
take_head(l, i) == l[1]

\* ConsListT::take_unchecked(i): ptr::read of slot i (0-based).  The read
\* copies the slot's bits and leaves the slot as it was.
take_unchecked(l, i) == l[i + 1]

NoElem == [val |-> -1, armed |-> FALSE]
Panic == [kind |-> "panic", elem |-> NoElem, beyond |-> FALSE]

\* (mutant) the assertion off by one the other way: debug_assert!(i + 1 < Self::LEN).
TakeUncheckedStrict(l, i, b) ==
    IF l = nil
    THEN {Panic}
    ELSE IF b = "debug" /\ ~(i + 1 < LEN(l))
         THEN {Panic}
         ELSE IF i < LEN(l)
              THEN {[kind |-> "value", elem |-> take_unchecked(l, i), beyond |-> FALSE]}
              ELSE {[kind |-> "value", elem |-> g, beyond |-> TRUE] :
                      g \in {[val |-> v, armed |-> a] : v \in 0..MaxVal, a \in BOOLEAN}}
                   \cup {[kind |-> "crash", elem |-> NoElem, beyond |-> TRUE]}

\* (mutant) the assertion off by one: debug_assert!(i <= Self::LEN).
TakeUncheckedLoose(l, i, b) ==
    IF l = nil
    THEN {Panic}
    ELSE IF b = "debug" /\ ~(i <= LEN(l))
         THEN {Panic}
         ELSE IF i < LEN(l)
              THEN {[kind |-> "value", elem |-> take_unchecked(l, i), beyond |-> FALSE]}
              ELSE {[kind |-> "value", elem |-> g, beyond |-> TRUE] :
                      g \in {[val |-> v, armed |-> a] : v \in 0..MaxVal, a \in BOOLEAN}}
                   \cup {[kind |-> "crash", elem |-> NoElem, beyond |-> TRUE]}

\* ConsListT::take_unchecked(i) in full, for any index: the outcomes of one
\* call on the list l in the build b.
\*   Nil:  panic!("Index out of bounds"), whatever the index and the build.
\*   Cons: debug_assert!(i < Self::LEN) panics in a debug build; then
\*         ptr::read(head.add(i)).  In a release build the assertion is
\*         compiled out and an index >= LEN reads behind the list, which is
\*         undefined behaviour: the call returns whatever bits are there as a
\*         T, or the process dies on the access.
TakeUnchecked(l, i, b) ==
    IF l = nil
    THEN {Panic}
    ELSE IF b = "debug" /\ ~(i < LEN(l))
         THEN {Panic}
         ELSE IF i < LEN(l)
              THEN {[kind |-> "value", elem |-> take_unchecked(l, i), beyond |-> FALSE]}
              ELSE {[kind |-> "value", elem |-> g, beyond |-> TRUE] :
                      g \in {[val |-> v, armed |-> a] : v \in 0..MaxVal, a \in BOOLEAN}}
                   \cup {[kind |-> "crash", elem |-> NoElem, beyond |-> TRUE]}

\* Range::next on alive: the index yielded, or -1 for None.
RangeNext(r) == IF r.start < r.end THEN r.start ELSE -1
\* Range::next_back on alive.
RangeNextBack(r) == IF r.start < r.end THEN r.end - 1 ELSE -1

\* (mutant) alive = 1..LEN.
IterNewFromOne(l) == [start |-> 1, end |-> LEN(l)]

\* Iter::new: ManuallyDrop::new(list), alive = 0..LEN.
IterNew(l) == [start |-> 0, end |-> LEN(l)]

\* (mutant) the length counted from the front alone.
IterLenFromFront == LEN(list) - alive.start

\* ExactSizeIterator::len: self.alive.len()
IterLen == alive.end - alive.start

\* Iterator::size_hint: (len, Some(len))
size_hint == <<IterLen, [some |-> IterLen]>>

IterIdle ==
    /\ built = <<>>
    /\ list = nil
    /\ phase = "building"
    /\ alive = [start |-> 0, end |-> 0]
    /\ takes = [i \in Slots |-> 0]
    /\ held = <<>>
    /\ dropCount = [i \in Slots |-> 0]
    /\ frontOut = <<>>
    /\ backOut = <<>>
    /\ lastRet = "-"
    /\ drainLog = <<>>
    /\ unwinding = FALSE
    /\ writes = <<>>
    /\ counted = -1

\* The element types of the tests: integers (dropping one never panics) and
\* tests::drop_behavior's Bomb(bool), whose destructor panics while armed.
Elems == {[val |-> v, armed |-> FALSE] : v \in Vals} \cup {[val |-> 0, armed |-> b] : b \in BOOLEAN}

\* ConsList<T, Ts> holds elements of the one type T.
SameType(e, l) == IF l = nil THEN TRUE ELSE (e.val = 0) <=> (l[1].val = 0)

\* cons_list![..] / ConsList::cons: one more element in front of the list;
\* what was slot i is slot i + 1 of the new list.
cons(e) ==
    /\ phase = "building"
    /\ Len(list) < MaxLen
    /\ SameType(e, list)
    /\ list' = consNode(e, list)
    /\ built' = Append(built, e)
    /\ writes' = [j \in {k + 1 : k \in DOMAIN writes} |-> writes[j - 1]]
    /\ UNCHANGED <<phase, alive, takes, held, dropCount, frontOut, backOut,
                   lastRet, drainLog, unwinding>>

\* ConsListT::as_slice: slice::from_raw_parts(self as *const T, LEN), the LEN
\* slots of the #[repr(C)] chain read as one array, slot i at offset i.
as_slice(l) == [j \in 1..LEN(l) |-> take_unchecked(l, j - 1)]

\* (mutant) the store lands in a copy of the slots, not in the list.
as_mut_slice_copy(i, v) ==
    /\ phase = "building"
    /\ i < LEN(list)
    /\ list[1].val # 0
    /\ i \in DOMAIN writes \/ Cardinality(DOMAIN writes) < MaxWrites
    /\ writes' = [j \in (DOMAIN writes) \cup {i} |->
                    IF j = i THEN [val |-> v, armed |-> FALSE] ELSE writes[j]]
    /\ UNCHANGED <<built, list, phase, alive, takes, held, dropCount, frontOut,
                   backOut, lastRet, drainLog, unwinding>>

\* ConsListT::as_mut_slice, then `slice[i] = v` as in
\* tests::as_mut_slice_allows_in_place_mutation: the store goes to slot i of
\* the list itself.  The lists written to are the integer lists of the tests.
as_mut_slice(i, v) ==
    /\ phase = "building"
    /\ i < LEN(list)
    /\ list[1].val # 0
    /\ i \in DOMAIN writes \/ Cardinality(DOMAIN writes) < MaxWrites
    /\ list' = [list EXCEPT ![i + 1] = [val |-> v, armed |-> FALSE]]
    /\ writes' = [j \in (DOMAIN writes) \cup {i} |->
                    IF j = i THEN [val |-> v, armed |-> FALSE] ELSE writes[j]]
    /\ UNCHANGED <<built, phase, alive, takes, held, dropCount, frontOut,
                   backOut, lastRet, drainLog, unwinding>>

\* (mutant) a take that keeps track of the slots read and panics on a second
\* read of the same slot.
take_call_tracked(i) ==
    /\ phase \in {"building", "raw"}
    /\ Len(rawOut) < MaxTakes
    /\ phase' = "raw"
    /\ \E r \in (IF i \in Slots /\ takes[i] > 0 THEN {Panic} ELSE TakeUnchecked(list, i, build)) :
         /\ rawOut' = Append(rawOut, [idx |-> i, kind |-> r.kind, elem |-> r.elem,
                                      beyond |-> r.beyond])
         /\ takes' = IF r.kind = "value" /\ ~r.beyond
                     THEN [takes EXCEPT ![i] = @ + 1] ELSE takes
    /\ UNCHANGED <<built, list, alive, held, dropCount, frontOut, backOut, lastRet,
                   drainLog, unwinding, writes, build>>

\* unsafe { list.take_unchecked(i) } called by a user of the ConsListT trait,
\* with any index and any number of times: nothing in the list records which
\* slots have been read.
take_call(i) ==
    /\ phase \in {"building", "raw"}
    /\ Len(rawOut) < MaxTakes
    /\ phase' = "raw"
    /\ \E r \in TakeUnchecked(list, i, build) :
         /\ rawOut' = Append(rawOut, [idx |-> i, kind |-> r.kind, elem |-> r.elem,
                                      beyond |-> r.beyond])
         /\ takes' = IF r.kind = "value" /\ ~r.beyond
                     THEN [takes EXCEPT ![i] = @ + 1] ELSE takes
    /\ UNCHANGED <<built, list, alive, held, dropCount, frontOut, backOut, lastRet,
                   drainLog, unwinding, writes, build>>

\* The slots of l that hold an armed Bomb.
Armed(l) == {i \in 0..(LEN(l) - 1) : take_unchecked(l, i).armed}

\* A ConsList that was never turned into an iterator goes out of scope (the
\* last block of tests::drop_behavior): ManuallyDrop is not involved, the
\* list's own drop glue destroys the slots in place, head first.  After a
\* first panicking destructor the glue goes on with the remaining slots; a
\* second one is a panic while unwinding and aborts.
list_drop ==
    /\ phase = "building"
    /\ LET second == {i \in Armed(list) : \E j \in Armed(list) : j < i}
           last == IF second = {} THEN LEN(list) - 1
                   ELSE CHOOSE i \in second : \A j \in second : i <= j
       IN /\ dropCount' = [i \in Slots |-> IF i <= last THEN dropCount[i] + 1 ELSE dropCount[i]]
          /\ phase' = IF second = {} THEN "dropped" ELSE "drop_aborted"
    /\ unwinding' = (Armed(list) # {})
    /\ UNCHANGED <<built, list, alive, takes, held, frontOut, backOut, lastRet,
                   drainLog>>

\* (mutant) into_iter without ManuallyDrop: the list's own destructor runs on
\* every slot when the list goes out of scope.
into_iter_dropping ==
    /\ phase = "building"
    /\ phase' = "iter"
    /\ alive' = IterNew(list)
    /\ dropCount' = [i \in Slots |-> IF i < LEN(list) THEN dropCount[i] + 1 ELSE dropCount[i]]
    /\ UNCHANGED <<built, list, takes, held, frontOut, backOut, lastRet,
                   drainLog, unwinding>>

\* IntoIterator::into_iter: the list moves into Iter::new; nothing is dropped.
into_iter ==
    /\ phase = "building"
    /\ phase' = "iter"
    /\ alive' = IterNew(list)
    /\ UNCHANGED <<built, list, takes, held, dropCount, frontOut, backOut, lastRet,
                   drainLog, unwinding>>

Hand(i, e) == [j \in (DOMAIN held) \cup {i} |-> IF j = i THEN e ELSE held[j]]
Unhand(i) == [j \in (DOMAIN held) \ {i} |-> held[j]]

\* Iterator::next: alive.next().map(|idx| take_unchecked(idx)).
next ==
    /\ phase = "iter"
    /\ ~unwinding
    /\ LET idx == RangeNext(alive) IN
       IF idx >= 0
       THEN /\ alive' = [alive EXCEPT !.start = idx + 1]
            /\ takes' = [takes EXCEPT ![idx] = @ + 1]
            /\ held' = Hand(idx, take_unchecked(list, idx))
            /\ frontOut' = Append(frontOut, take_unchecked(list, idx))
            /\ lastRet' = "Some"
       ELSE /\ lastRet' = "None"
            /\ UNCHANGED <<alive, takes, held, frontOut>>
    /\ UNCHANGED <<built, list, phase, dropCount, backOut, drainLog, unwinding>>

\* (mutant) a next_back whose end index goes down even when the range is empty.
next_back_wrapping ==
    /\ phase = "iter"
    /\ ~unwinding
    /\ LET idx == RangeNextBack(alive) IN
       IF idx >= 0
       THEN /\ alive' = [alive EXCEPT !.end = idx]
            /\ takes' = [takes EXCEPT ![idx] = @ + 1]
            /\ held' = Hand(idx, take_unchecked(list, idx))
            /\ backOut' = Append(backOut, take_unchecked(list, idx))
            /\ lastRet' = "Some"
       ELSE /\ lastRet' = "None"
            /\ alive' = [alive EXCEPT !.end = @ - 1]
            /\ UNCHANGED <<takes, held, backOut>>
    /\ UNCHANGED <<built, list, phase, dropCount, frontOut, drainLog, unwinding>>

\* DoubleEndedIterator::next_back: alive.next_back().map(|idx| take_unchecked(idx)).
next_back ==
    /\ phase = "iter"
    /\ ~unwinding
    /\ LET idx == RangeNextBack(alive) IN
       IF idx >= 0
       THEN /\ alive' = [alive EXCEPT !.end = idx]
            /\ takes' = [takes EXCEPT ![idx] = @ + 1]
            /\ held' = Hand(idx, take_unchecked(list, idx))
            /\ backOut' = Append(backOut, take_unchecked(list, idx))
            /\ lastRet' = "Some"
       ELSE /\ lastRet' = "None"
            /\ UNCHANGED <<alive, takes, held, backOut>>
    /\ UNCHANGED <<built, list, phase, dropCount, frontOut, drainLog, unwinding>>

\* Iterator::count(self): self.len(); the iterator was moved into the call
\* and is dropped as it returns.
count ==
    /\ phase = "iter"
    /\ ~unwinding
    /\ counted' = IterLen
    /\ phase' = "draining"
    /\ UNCHANGED <<built, list, alive, takes, held, dropCount, frontOut, backOut,
                   lastRet, drainLog, unwinding>>

\* tests::drop_behavior, Bomb::disarm: the caller disarms an element it holds.
disarm(i) ==
    /\ phase \in {"iter", "gone"}
    /\ ~unwinding
    /\ i \in DOMAIN held
    /\ held[i].armed
    /\ held' = [held EXCEPT ![i].armed = FALSE]
    /\ UNCHANGED <<built, list, phase, alive, takes, dropCount, frontOut, backOut,
                   lastRet, drainLog, unwinding>>

\* The caller drops an element it was handed.  Bomb::drop panics when armed:
\* the first panic starts unwinding the caller, a panic while unwinding aborts.
caller_drop(i) ==
    /\ phase \in {"iter", "gone", "leaked"}
    /\ i \in DOMAIN held
    /\ held' = Unhand(i)
    /\ dropCount' = [dropCount EXCEPT ![i] = @ + 1]
    /\ IF held[i].armed
       THEN IF unwinding
            THEN phase' = "aborted" /\ UNCHANGED unwinding
            ELSE unwinding' = TRUE /\ UNCHANGED phase
       ELSE UNCHANGED <<phase, unwinding>>
    /\ UNCHANGED <<built, list, alive, takes, frontOut, backOut, lastRet, drainLog>>

\* Drop for Iter begins: the caller drops the iterator, or unwinding does.
iter_drop ==
    /\ phase = "iter"
    /\ phase' = "draining"
    /\ UNCHANGED <<built, list, alive, takes, held, dropCount, frontOut, backOut,
                   lastRet, drainLog, unwinding>>

\* (mutant) a drop that returns without draining.
drain_none ==
    /\ phase = "draining"
    /\ phase' = "gone"
    /\ UNCHANGED <<built, list, alive, takes, held, dropCount, frontOut, backOut,
                   lastRet, drainLog, unwinding>>

\* (mutant) a drop that drains only when no panic is unwinding.
drain_unless_unwinding ==
    /\ phase = "draining"
    /\ LET idx == IF unwinding THEN -1 ELSE RangeNext(alive) IN
       IF idx >= 0
       THEN /\ alive' = [alive EXCEPT !.start = idx + 1]
            /\ takes' = [takes EXCEPT ![idx] = @ + 1]
            /\ dropCount' = [dropCount EXCEPT ![idx] = @ + 1]
            /\ drainLog' = Append(drainLog, idx)
            /\ IF take_unchecked(list, idx).armed
               THEN phase' = "leaked" /\ unwinding' = TRUE
               ELSE UNCHANGED <<phase, unwinding>>
       ELSE /\ phase' = "gone"
            /\ UNCHANGED <<alive, takes, dropCount, drainLog, unwinding>>
    /\ UNCHANGED <<built, list, held, frontOut, backOut, lastRet>>

\* (mutant) a drop that drains from the back: `while self.next_back().is_some() {}`.
drain_from_back ==
    /\ phase = "draining"
    /\ LET idx == RangeNextBack(alive) IN
       IF idx >= 0
       THEN /\ alive' = [alive EXCEPT !.end = idx]
            /\ takes' = [takes EXCEPT ![idx] = @ + 1]
            /\ dropCount' = [dropCount EXCEPT ![idx] = @ + 1]
            /\ drainLog' = Append(drainLog, idx)
            /\ IF take_unchecked(list, idx).armed
               THEN IF unwinding
                    THEN phase' = "aborted" /\ UNCHANGED unwinding
                    ELSE phase' = "leaked" /\ unwinding' = TRUE
               ELSE UNCHANGED <<phase, unwinding>>
       ELSE /\ phase' = "gone"
            /\ UNCHANGED <<alive, takes, dropCount, drainLog, unwinding>>
    /\ UNCHANGED <<built, list, held, frontOut, backOut, lastRet>>

\* (mutant) a drain that reads the front slot, drops the element and only
\* then moves the range on: a panicking destructor leaves the range as it was.
drain_advance_after ==
    /\ phase = "draining"
    /\ LET idx == RangeNext(alive) IN
       IF idx >= 0
       THEN /\ takes' = [takes EXCEPT ![idx] = @ + 1]
            /\ dropCount' = [dropCount EXCEPT ![idx] = @ + 1]
            /\ drainLog' = Append(drainLog, idx)
            /\ IF take_unchecked(list, idx).armed
               THEN /\ UNCHANGED alive
                    /\ IF unwinding
                       THEN phase' = "aborted" /\ UNCHANGED unwinding
                       ELSE phase' = "leaked" /\ unwinding' = TRUE
               ELSE /\ alive' = [alive EXCEPT !.start = idx + 1]
                    /\ UNCHANGED <<phase, unwinding>>
       ELSE /\ phase' = "gone"
            /\ UNCHANGED <<alive, takes, dropCount, drainLog, unwinding>>
    /\ UNCHANGED <<built, list, held, frontOut, backOut, lastRet>>

\* Drop for Iter, one turn of `for _ in self {}`: next() takes the front slot
\* and the element is dropped at once; None ends the loop and drop returns.
\* An armed element's destructor panics out of drop (the rest stays in the
\* ManuallyDrop list and is never destroyed), or aborts when already unwinding.
drain_step ==
    /\ phase = "draining"
    /\ LET idx == RangeNext(alive) IN
       IF idx >= 0
       THEN /\ alive' = [alive EXCEPT !.start = idx + 1]
            /\ takes' = [takes EXCEPT ![idx] = @ + 1]
            /\ dropCount' = [dropCount EXCEPT ![idx] = @ + 1]
            /\ drainLog' = Append(drainLog, idx)
            /\ IF take_unchecked(list, idx).armed
               THEN IF unwinding
                    THEN phase' = "aborted" /\ UNCHANGED unwinding
                    ELSE phase' = "leaked" /\ unwinding' = TRUE
               ELSE UNCHANGED <<phase, unwinding>>
       ELSE /\ phase' = "gone"
            /\ UNCHANGED <<alive, takes, dropCount, drainLog, unwinding>>
    /\ UNCHANGED <<built, list, held, frontOut, backOut, lastRet>>

\* ================================================= lib.rs, futures/*.rs

N == Len(input)

\* par_for_each / par_map / par_map_to_list and their _local forms use join!.
IsPar == variant \in {"par", "par_local"}
\* for_each / map / map_to_list of the futures module and their _local forms.
IsSeq == variant \in {"seq", "seq_local"}
IsSync == variant = "sync"

NoRes == [tag |-> "-", arg |-> 0]
NoResult == [kind |-> "-", items |-> <<>>]
NoPanic == [panic |-> 0]

\* The caller's operation (Func / AsyncFunc / AsyncParFunc ::call): what its
\* invocation on element e returns.  for_each takes operations with
\* Output = (); the mapping operation returns a Result, Err on the element 1.
OpResult(e) ==
    IF scheme = "for_each" THEN [tag |-> "Unit", arg |-> 0]
    ELSE [tag |-> IF e = 1 THEN "Err" ELSE "Ok", arg |-> e]
\* The payload of the operation's panic on element e.
OpPanic(e) == [panic |-> e]

\* (mutant) the panic caught and dropped on the way out.
PropagateNone(payload) == NoPanic

\* A panic leaves call()/poll() by unwinding through the traversal's frames,
\* none of which catches it: the caller sees the payload as raised.
Propagate(payload) == payload

\* HCons { head, tail } over the results from position k on; HNil at the end.
RECURSIVE HListFrom(_, _)
HListFrom(r, k) == IF k > Len(r) THEN <<>> ELSE <<r[k]>> \o HListFrom(r, k + 1)

\* (mutant) the list consed up from the first result, which ends up last.
ConsListRev(r, k) == [j \in 1..(Len(r) + 1 - k) |-> r[Len(r) + 1 - j]]

\* ConsList::cons(head, tail) over the results from position k on; nil at the end.
RECURSIVE ConsListFrom(_, _)
ConsListFrom(r, k) == IF k > Len(r) THEN nil ELSE consNode(r[k], ConsListFrom(r, k + 1))

\* (mutant) the outputs collected in the order the invocations completed.
OutputByCompletion(r) ==
    [kind |-> CASE scheme = "for_each" -> "unit"
                [] scheme = "map" -> "hlist"
                [] scheme = "map_to_list" -> "conslist",
     items |-> IF scheme = "for_each" THEN <<>>
               ELSE [j \in 1..Len(r) |-> r[completions[j]]]]

\* What the outermost HCons impl returns once every position has its output.
Output(r) ==
    CASE scheme = "for_each" -> [kind |-> "unit", items |-> <<>>]
      [] scheme = "map" -> [kind |-> "hlist", items |-> HListFrom(r, 1)]
      [] scheme = "map_to_list" -> [kind |-> "conslist", items |-> ConsListFrom(r, 1)]

TravIdle ==
    /\ scheme = "for_each"
    /\ variant = "sync"
    /\ input = <<>>
    /\ tphase = "created"
    /\ cursor = 1
    /\ inv = <<>>
    /\ res = <<>>
    /\ invPolls = <<>>
    /\ calls = <<>>
    /\ completions = <<>>
    /\ tpolls = 0
    /\ result = NoResult
    /\ failure = NoPanic
    /\ pendingSeen = {}
    /\ opState = <<>>
    /\ seen = <<>>

Inputs == UNION {[1..n -> Vals] : n \in 0..MaxLen}

\* One traversal call: the caller picks the scheme, the variant and the HList.
TravStart ==
    /\ scheme \in {"for_each", "map", "map_to_list"}
    /\ variant \in {"sync", "seq", "seq_local", "par", "par_local"}
    /\ input \in Inputs
    /\ tphase = "created"
    /\ cursor = 1
    /\ inv = [k \in 1..N |-> "none"]
    /\ res = [k \in 1..N |-> NoRes]
    /\ invPolls = [k \in 1..N |-> 0]
    /\ calls = <<>>
    /\ completions = <<>>
    /\ tpolls = 0
    /\ result = NoResult
    /\ failure = NoPanic
    /\ pendingSeen = {}
    /\ opState = <<>>
    /\ seen = [k \in 1..N |-> <<>>]

\* The caller runs the sync traversal, or the executor polls the future an
\* async traversal returned.  A join! poll visits its branches from the
\* first; a sequential body resumes at the await it is suspended on.
poll ==
    /\ tphase \in {"created", "suspended"}
    /\ tpolls < MaxPolls
    /\ tphase' = "polling"
    /\ tpolls' = tpolls + 1
    /\ cursor' = IF IsPar THEN 1 ELSE cursor
    /\ pendingSeen' = {}
    /\ UNCHANGED <<scheme, variant, input, inv, res, invPolls, calls,
                   completions, result, failure>>

\* Every pending invocation future is dropped with the traversal's frame.
Abandon(k) == [j \in 1..N |-> IF j = k THEN "panicked"
                              ELSE IF inv[j] = "pending" THEN "dropped" ELSE inv[j]]

\* (mutant) the tail is given a copy of the operation made before the call.
ThreadCopy(st, e) == st

\* The operation value after its invocation on e: call(&mut self, e) has
\* recorded e in it, and this same value is what `tail.<scheme>(f)` is given.
Thread(st, e) == Append(st, e)

\* The invocation at the cursor returns its value.
Returned ==
    /\ inv' = [inv EXCEPT ![cursor] = "done"]
    /\ opState' = Thread(opState, input[cursor])
    /\ res' = [res EXCEPT ![cursor] = OpResult(input[cursor])]
    /\ completions' = Append(completions, cursor)
    /\ cursor' = cursor + 1
    /\ UNCHANGED <<tphase, failure>>

\* The invocation at the cursor panics.
Panicked ==
    /\ inv' = Abandon(cursor)
    /\ tphase' = "panicked"
    /\ failure' = Propagate(OpPanic(input[cursor]))
    /\ UNCHANGED <<res, completions, cursor, opState>>

\* Sync HCons impls (HMappable::map, MapToList::map_to_list, ForEach::for_each):
\* f.call(head) runs to its return value or panics, then the tail is visited.
sync_call(o) ==
    /\ IsSync
    /\ tphase = "polling"
    /\ cursor <= N
    /\ inv[cursor] = "none"
    /\ calls' = Append(calls, [pos |-> cursor, arg |-> input[cursor]])
    /\ seen' = [seen EXCEPT ![cursor] = opState]
    /\ IF o = "Panic" THEN Panicked ELSE Returned
    /\ UNCHANGED <<scheme, variant, input, invPolls, tpolls, result>>

\* Async HCons impls: f.0.call(head) creates the invocation's future.  The
\* sequential body reaches it after the previous await has returned; a join!
\* body reaches it on the first poll of its level.
call ==
    /\ ~IsSync
    /\ tphase = "polling"
    /\ cursor <= N
    /\ inv[cursor] = "none"
    /\ inv' = [inv EXCEPT ![cursor] = "pending"]
    /\ calls' = Append(calls, [pos |-> cursor, arg |-> input[cursor]])
    /\ seen' = [seen EXCEPT ![cursor] = opState]
    /\ UNCHANGED <<scheme, variant, input, tphase, cursor, res, invPolls,
                   completions, tpolls, result, failure, opState>>

\* (mutant) an await that goes on to the tail while the head is pending.
await_call_nowait(o) ==
    /\ IsSeq
    /\ tphase = "polling"
    /\ cursor <= N
    /\ inv[cursor] = "pending"
    /\ invPolls' = [invPolls EXCEPT ![cursor] = @ + 1]
    /\ pendingSeen' = IF o = "Pending" THEN pendingSeen \cup {cursor} ELSE pendingSeen
    /\ CASE o = "Pending" -> /\ cursor' = cursor + 1
                             /\ UNCHANGED <<inv, res, completions, tphase, failure, opState>>
         [] o = "Panic" -> Panicked
         [] OTHER -> Returned
    /\ UNCHANGED <<scheme, variant, input, calls, tpolls, result>>

\* Sequential async HCons impls: `f.0.call(head).await` polls the invocation.
\* Pending suspends the whole traversal at this await; a value lets the body
\* go on to `tail.<scheme>(f).await`.
await_call(o) ==
    /\ IsSeq
    /\ tphase = "polling"
    /\ cursor <= N
    /\ inv[cursor] = "pending"
    /\ invPolls' = [invPolls EXCEPT ![cursor] = @ + 1]
    /\ pendingSeen' = IF o = "Pending" THEN pendingSeen \cup {cursor} ELSE pendingSeen
    /\ CASE o = "Pending" -> /\ tphase' = "suspended"
                             /\ UNCHANGED <<inv, res, completions, cursor, failure, opState>>
         [] o = "Panic" -> Panicked
         [] OTHER -> Returned
    /\ UNCHANGED <<scheme, variant, input, calls, tpolls, result>>

\* (mutant) a first poll that only issues the invocations and polls none.
join_poll_defer(o) ==
    /\ IsPar
    /\ tphase = "polling"
    /\ cursor <= N
    /\ inv[cursor] = "pending"
    /\ IF tpolls = 1
       THEN /\ cursor' = cursor + 1
            /\ UNCHANGED <<invPolls, pendingSeen, inv, res, completions, tphase,
                           failure, opState>>
       ELSE /\ invPolls' = [invPolls EXCEPT ![cursor] = @ + 1]
            /\ pendingSeen' = IF o = "Pending" THEN pendingSeen \cup {cursor} ELSE pendingSeen
            /\ CASE o = "Pending" -> /\ cursor' = cursor + 1
                                     /\ UNCHANGED <<inv, res, completions, tphase, failure, opState>>
                 [] o = "Panic" -> Panicked
                 [] OTHER -> Returned
    /\ UNCHANGED <<scheme, variant, input, calls, tpolls, result>>

\* (mutant) a join that makes the head's future anew on every poll.
join_poll_recreate(o) ==
    /\ IsPar
    /\ tphase = "polling"
    /\ cursor <= N
    /\ inv[cursor] = "pending"
    /\ invPolls' = [invPolls EXCEPT ![cursor] = @ + 1]
    /\ pendingSeen' = IF o = "Pending" THEN pendingSeen \cup {cursor} ELSE pendingSeen
    /\ CASE o = "Pending" -> /\ cursor' = cursor + 1
                             /\ inv' = [inv EXCEPT ![cursor] = "none"]
                             /\ UNCHANGED <<res, completions, tphase, failure, opState>>
         [] o = "Panic" -> Panicked
         [] OTHER -> Returned
    /\ UNCHANGED <<scheme, variant, input, calls, tpolls, result>>

\* (mutant) a join that returns Pending at its first pending branch.
join_poll_wait(o) ==
    /\ IsPar
    /\ tphase = "polling"
    /\ cursor <= N
    /\ inv[cursor] = "pending"
    /\ invPolls' = [invPolls EXCEPT ![cursor] = @ + 1]
    /\ pendingSeen' = IF o = "Pending" THEN pendingSeen \cup {cursor} ELSE pendingSeen
    /\ CASE o = "Pending" -> /\ tphase' = "suspended"
                             /\ UNCHANGED <<inv, res, completions, cursor, failure, opState>>
         [] o = "Panic" -> Panicked
         [] OTHER -> Returned
    /\ UNCHANGED <<scheme, variant, input, calls, tpolls, result>>

\* Concurrent HCons impls: join!{ f.0.call(head), tail.par_<scheme>(f) } polls
\* the head's invocation and then, whatever it answered, the tail's future.
join_poll(o) ==
    /\ IsPar
    /\ tphase = "polling"
    /\ cursor <= N
    /\ inv[cursor] = "pending"
    /\ invPolls' = [invPolls EXCEPT ![cursor] = @ + 1]
    /\ pendingSeen' = IF o = "Pending" THEN pendingSeen \cup {cursor} ELSE pendingSeen
    /\ CASE o = "Pending" -> /\ cursor' = cursor + 1
                             /\ UNCHANGED <<inv, res, completions, tphase, failure, opState>>
         [] o = "Panic" -> Panicked
         [] OTHER -> Returned
    /\ UNCHANGED <<scheme, variant, input, calls, tpolls, result>>

\* join! keeps a finished branch's output and does not poll it again.
join_skip ==
    /\ IsPar
    /\ tphase = "polling"
    /\ cursor <= N
    /\ inv[cursor] = "done"
    /\ cursor' = cursor + 1
    /\ UNCHANGED <<scheme, variant, input, tphase, inv, res, invPolls, calls,
                   completions, tpolls, result, failure>>

\* (mutant) try_join!: the traversal returns as soon as an output is an Err.
finish_try ==
    /\ tphase = "polling"
    /\ cursor = N + 1
    /\ IF \/ \A k \in 1..N : inv[k] = "done"
          \/ \E k \in 1..N : res[k].tag = "Err"
       THEN tphase' = "complete" /\ result' = Output(res)
       ELSE tphase' = "suspended" /\ UNCHANGED result
    /\ UNCHANGED <<scheme, variant, input, cursor, inv, res, invPolls, calls,
                   completions, tpolls, failure>>

\* (mutant) a traversal that returns as soon as an invocation has returned an
\* Err, as with `?` on the head's output.
finish_bail ==
    /\ tphase = "polling"
    /\ cursor = N + 1 \/ \E k \in 1..N : res[k].tag = "Err"
    /\ IF \/ \A k \in 1..N : inv[k] = "done"
          \/ \E k \in 1..N : res[k].tag = "Err"
       THEN tphase' = "complete" /\ result' = Output(res)
       ELSE tphase' = "suspended" /\ UNCHANGED result
    /\ UNCHANGED <<scheme, variant, input, cursor, inv, res, invPolls, calls,
                   completions, tpolls, failure>>

\* (mutant) a traversal that yields to the executor once before it returns.
finish_yield ==
    /\ tphase = "polling"
    /\ cursor = N + 1
    /\ IF (\A k \in 1..N : inv[k] = "done") /\ (IsSync \/ tpolls > 1)
       THEN tphase' = "complete" /\ result' = Output(res)
       ELSE tphase' = "suspended" /\ UNCHANGED result
    /\ UNCHANGED <<scheme, variant, input, cursor, inv, res, invPolls, calls,
                   completions, tpolls, failure>>

\* Past the last element the HNil impl returns at once.  Each HCons level
\* returns its output when its head and its tail are done; a join! level
\* with a branch still pending returns Pending.
finish ==
    /\ tphase = "polling"
    /\ cursor = N + 1
    /\ IF \A k \in 1..N : inv[k] = "done"
       THEN tphase' = "complete" /\ result' = Output(res)
       ELSE tphase' = "suspended" /\ UNCHANGED result
    /\ UNCHANGED <<scheme, variant, input, cursor, inv, res, invPolls, calls,
                   completions, tpolls, failure>>

\* (mutant) a drop that cancels the first pending invocation only.
trav_drop_first ==
    /\ ~IsSync
    /\ tphase \in {"created", "suspended"}
    /\ tphase' = "dropped"
    /\ inv' = [j \in 1..N |-> IF inv[j] = "pending" /\ \A k \in 1..(j - 1) : inv[k] # "pending"
                               THEN "dropped" ELSE inv[j]]
    /\ UNCHANGED <<scheme, variant, input, cursor, res, invPolls, calls,
                   completions, tpolls, result, failure>>

\* The caller drops the traversal's future before it has completed: the join!
\* future owns the head's invocation and the tail's future, and they are
\* dropped with it.
trav_drop ==
    /\ ~IsSync
    /\ tphase \in {"created", "suspended"}
    /\ tphase' = "dropped"
    /\ inv' = [j \in 1..N |-> IF inv[j] = "pending" THEN "dropped" ELSE inv[j]]
    /\ UNCHANGED <<scheme, variant, input, cursor, res, invPolls, calls,
                   completions, tpolls, result, failure>>

\* ========================================================== specifications

TakeIdle == build = "debug" /\ rawOut = <<>>

IterInit == IterIdle /\ TravIdle /\ TakeIdle

IterStep ==
    \/ \E e \in Elems : cons(e) /\ UNCHANGED <<travVars, takeVars, counted>>
    \/ list_drop /\ UNCHANGED <<travVars, takeVars, writes, counted>>
    \/ into_iter /\ UNCHANGED <<travVars, takeVars, writes, counted>>
    \/ next /\ UNCHANGED <<travVars, takeVars, writes, counted>>
    \/ next_back /\ UNCHANGED <<travVars, takeVars, writes, counted>>
    \/ \E i \in Slots : disarm(i) /\ UNCHANGED <<travVars, takeVars, writes, counted>>
    \/ \E i \in Slots : caller_drop(i) /\ UNCHANGED <<travVars, takeVars, writes, counted>>
    \/ count /\ UNCHANGED <<travVars, takeVars, writes>>
    \/ iter_drop /\ UNCHANGED <<travVars, takeVars, writes, counted>>
    \/ drain_step /\ UNCHANGED <<travVars, takeVars, writes, counted>>

IterSpec == IterInit /\ [][IterStep]_vars

\* A list is built, stored to through as_mut_slice(), and then consumed from
\* the front.
SliceStep ==
    \/ \E e \in Elems : cons(e) /\ UNCHANGED <<travVars, takeVars, counted>>
    \/ \E i \in Slots, v \in Vals : as_mut_slice(i, v) /\ UNCHANGED <<travVars, takeVars, counted>>
    \/ into_iter /\ UNCHANGED <<travVars, takeVars, writes, counted>>
    \/ next /\ UNCHANGED <<travVars, takeVars, writes, counted>>

SliceSpec == IterInit /\ [][SliceStep]_vars

\* A list is built in a debug or in a release build, and take_unchecked is
\* called on it directly.
TakeInit == IterIdle /\ TravIdle /\ build \in {"debug", "release"} /\ rawOut = <<>>

TakeStep ==
    \/ \E e \in Elems : cons(e) /\ UNCHANGED <<travVars, takeVars, counted>>
    \/ \E i \in 0..MaxLen : take_call(i) /\ UNCHANGED <<travVars, counted>>

TakeSpec == TakeInit /\ [][TakeStep]_vars

TravInit == IterIdle /\ TravStart /\ TakeIdle

TravStep ==
    \/ poll /\ UNCHANGED <<iterVars, takeVars, opState, seen>>
    \/ \E o \in {"Ready", "Panic"} : sync_call(o) /\ UNCHANGED <<iterVars, takeVars, pendingSeen>>
    \/ call /\ UNCHANGED <<iterVars, takeVars, pendingSeen>>
    \/ \E o \in {"Pending", "Ready", "Panic"} : await_call(o) /\ UNCHANGED <<iterVars, takeVars, seen>>
    \/ \E o \in {"Pending", "Ready", "Panic"} : join_poll(o) /\ UNCHANGED <<iterVars, takeVars, seen>>
    \/ join_skip /\ UNCHANGED <<iterVars, takeVars, pendingSeen, opState, seen>>
    \/ finish /\ UNCHANGED <<iterVars, takeVars, pendingSeen, opState, seen>>
    \/ trav_drop /\ UNCHANGED <<iterVars, takeVars, pendingSeen, opState, seen>>

TravSpec == TravInit /\ [][TravStep]_vars

\* ============================================================= properties

\* e1, ..., eN of cons(e1, cons(e2, ... cons(eN, nil()))): the innermost call
\* runs first, so the heads arrive at cons in the order eN, ..., e1.
Built == [j \in 1..Len(built) |-> built[Len(built) + 1 - j]]

ListIdx == 0..(LEN(list) - 1)

C2_CollectInOrder ==
    backOut = <<>> =>
      /\ Len(frontOut) <= Len(Built)
      /\ \A j \in 1..Len(frontOut) : frontOut[j] = Built[j]
      /\ lastRet = "None" => frontOut = Built

\* Three elements, not all alike, collected to the end.
C2_Witness ==
    /\ lastRet = "None"
    /\ backOut = <<>>
    /\ Len(frontOut) = 3
    /\ frontOut[1] # frontOut[3]
    /\ frontOut[1].val = 1

\* C3: under every interleaving of next() and next_back(), next() returns
\* e1, e2, ... and next_back() returns eN, eN-1, ...; a slot outside the alive
\* range has been taken once and a slot inside it never, and when the range is
\* empty the two outputs together hold all N elements.
C3_DoubleEnded ==
    phase = "iter" =>
      /\ \A j \in 1..Len(frontOut) : frontOut[j] = Built[j]
      /\ \A j \in 1..Len(backOut) : backOut[j] = Built[Len(Built) + 1 - j]
      /\ \A i \in ListIdx :
           takes[i] = IF alive.start <= i /\ i < alive.end THEN 0 ELSE 1
      /\ Len(frontOut) = alive.start
      /\ Len(backOut) = LEN(list) - alive.end
      /\ lastRet = "None" => Len(frontOut) + Len(backOut) = Len(Built)

\* Three elements, one taken from the front and two from the back, then None.
C3_Witness ==
    /\ phase = "iter"
    /\ lastRet = "None"
    /\ Len(frontOut) = 1
    /\ Len(backOut) = 2
    /\ backOut[1] # backOut[2]

Positions == 1..N

\* C4: in every scheme and variant the operation's call log is, at any time,
\* the positions 1, 2, ... in order, each with its own element as argument,
\* and it holds all N of them when the traversal has completed.
C4_OncePerElementInOrder ==
    /\ Len(calls) <= N
    /\ \A j \in 1..Len(calls) : calls[j] = [pos |-> j, arg |-> input[j]]
    /\ tphase = "complete" => Len(calls) = N

\* A concurrent traversal of three elements that took two polls to complete.
C4_Witness ==
    /\ tphase = "complete"
    /\ variant = "par"
    /\ scheme = "for_each"
    /\ N = 3
    /\ tpolls = 2
    /\ input[1] # input[2]

\* C5: the structure a map or map-to-list returns holds at position i the
\* value that the invocation on the i-th element returned, in whatever order
\* the invocations completed.
C5_ResultsPositional ==
    (tphase = "complete" /\ scheme # "for_each") =>
      /\ Len(result.items) = N
      /\ \A i \in Positions : result.items[i] = res[i] /\ res[i].arg = input[i]

\* A concurrent map in which the last element's invocation completed first.
C5_Witness ==
    /\ tphase = "complete"
    /\ variant = "par_local"
    /\ scheme = "map"
    /\ N = 3
    /\ completions = <<3, 1, 2>>
    /\ input[1] # input[3]

\* C6: in the sequential async variants an element's invocation exists only
\* when every earlier one has completed, so at most one is pending.
C6_SequentialSingleFlow ==
    IsSeq =>
      /\ Cardinality({k \in Positions : inv[k] = "pending"}) <= 1
      /\ \A k \in Positions : \A j \in Positions :
           (j < k /\ inv[k] # "none") => inv[j] = "done"

\* Suspended on the second of three elements: the first done, the third not issued.
C6_Witness ==
    /\ variant = "seq"
    /\ tphase = "suspended"
    /\ inv = <<"done", "pending", "none">>

\* C7 as stated: in the concurrent variants no invocation has completed
\* while another of the call is not yet issued.
C7_AllIssuedBeforeAnyCompletes ==
    IsPar => ((\E k \in Positions : inv[k] = "done") =>
                \A j \in Positions : inv[j] # "none")

\* C7, amended: in the concurrent variants all N invocations are issued
\* within the traversal's first poll: when a poll has returned Pending or the
\* output, and whenever some invocation has been polled a second time, none
\* is left unissued.
C7_AllIssuedInFirstPoll ==
    IsPar =>
      /\ tphase \in {"suspended", "complete"} => \A j \in Positions : inv[j] # "none"
      /\ (\E k \in Positions : invPolls[k] >= 2) => \A j \in Positions : inv[j] # "none"

\* After the first poll of a concurrent traversal all three invocations are pending.
C7_Witness ==
    /\ variant = "par"
    /\ tphase = "suspended"
    /\ tpolls = 1
    /\ inv = <<"pending", "pending", "pending">>

\* C8 as stated: when a concurrent traversal has failed, no invocation it
\* had launched was left short of completion.
C8_OthersCompleteBeforeFailure ==
    IsPar =>
      /\ tphase = "panicked" => \A j \in Positions : inv[j] \in {"none", "done", "panicked"}
      /\ tphase = "complete" => \A j \in Positions : inv[j] = "done"

\* C8, amended: a concurrent traversal returns its output, error values
\* included, only when every invocation has completed; a panic of one
\* invocation ends the traversal in that poll, and no other invocation is
\* left running: those not yet complete are dropped.
C8_ErrWaitsPanicAbandons ==
    IsPar =>
      /\ tphase = "complete" => \A j \in Positions : inv[j] = "done"
      /\ tphase = "panicked" =>
           /\ \A j \in Positions : inv[j] # "pending"
           /\ result = NoResult

\* The first invocation returned an Err in the first poll, the second was
\* pending then and completed in the second poll, after which the map returned.
C8_Witness ==
    /\ variant = "par"
    /\ scheme = "map"
    /\ tphase = "complete"
    /\ N = 2
    /\ res[1].tag = "Err"
    /\ invPolls = <<1, 2>>

\* C9: a panic of an invocation reaches the traversal's caller with the
\* payload the operation raised, and nothing else ever does; an Err output
\* is returned as it is, in its position; no element is passed to the
\* operation twice.
C9_FailureVerbatimNoRetry ==
    /\ tphase = "panicked" =>
         \E k \in Positions :
           /\ inv[k] = "panicked"
           /\ failure = OpPanic(input[k])
           /\ \A j \in Positions \ {k} : inv[j] # "panicked"
    /\ tphase # "panicked" => failure = NoPanic
    /\ \A k \in Positions : Cardinality({j \in 1..Len(calls) : calls[j].pos = k}) <= 1
    /\ (tphase = "complete" /\ scheme # "for_each") =>
         \A k \in Positions : res[k].tag = "Err" => result.items[k] = res[k]

\* The second of three invocations of a sequential map panicked after a suspension.
C9_Witness ==
    /\ variant = "seq"
    /\ scheme = "map"
    /\ tphase = "panicked"
    /\ inv = <<"done", "panicked", "none">>
    /\ invPolls[2] = 2
    /\ failure = OpPanic(input[2])

\* C10: map_to_list, sync or async, returns a ConsList of exactly N elements,
\* the i-th being the operation's output for the i-th element; nil for HNil.
C10_MapToListShape ==
    (scheme = "map_to_list" /\ tphase = "complete") =>
      /\ result.kind = "conslist"
      /\ LEN(result.items) = N
      /\ \A i \in Positions : result.items[i] = OpResult(input[i])
      /\ N = 0 => result.items = nil

\* A sync map_to_list over three elements, the first unlike the last.
C10_Witness ==
    /\ scheme = "map_to_list"
    /\ variant = "sync"
    /\ tphase = "complete"
    /\ N = 3
    /\ result.items[1] # result.items[3]

\* The list as built with the stores through as_mut_slice() applied.
Stored == [j \in 1..Len(Built) |-> IF (j - 1) \in DOMAIN writes THEN writes[j - 1] ELSE Built[j]]

\* C11: as_slice() has LEN elements, and the element next() yields at position
\* j is the one as_slice() shows at index j; that element is the value last
\* stored at that index through as_mut_slice(), and where nothing was stored,
\* the element the list was built with.
C11_SliceViewMatchesIter ==
    /\ Len(as_slice(list)) = Len(Built)
    /\ \A j \in 1..Len(frontOut) : frontOut[j] = as_slice(list)[j]
    /\ \A j \in 1..Len(frontOut) : frontOut[j] = Stored[j]
    /\ lastRet = "None" => (frontOut = as_slice(list) /\ frontOut = Stored)

\* Three integers, the middle one overwritten with another value, all three
\* collected.
C11_Witness ==
    /\ lastRet = "None"
    /\ Len(frontOut) = 3
    /\ DOMAIN writes = {1}
    /\ writes[1] # Built[2]
    /\ frontOut[2] = writes[1]
    /\ frontOut[1] = Built[1]

\* The slots that were in [front, back) when the iterator's drop began: next()
\* and next_back() do not run after that.
AtTeardown == {i \in ListIdx : Len(frontOut) <= i /\ i < LEN(list) - Len(backOut)}

\* C12: when the iterator is dropped while a panic from the destructor of a
\* caller-held element unwinds, the drop still discards what is in
\* [front, back): a slot it has passed has had its destructor run once, a slot
\* it has not reached not yet, and when the drop has returned every slot that
\* was in [front, back) has had it run exactly once; none has run twice.
C12_TeardownWhileUnwinding ==
    (unwinding /\ phase \in {"draining", "gone"}) =>
      /\ \A i \in Slots : dropCount[i] <= 1
      /\ \A i \in AtTeardown : dropCount[i] = IF i < alive.start THEN 1 ELSE 0
      /\ phase = "gone" => \A i \in AtTeardown : dropCount[i] = 1

\* tests::drop_behavior with the head left armed: the head is taken and its
\* destructor panics in the caller, the unwinding drops the iterator, and the
\* drop has discarded the two inert elements behind it.
C12_Witness ==
    /\ unwinding
    /\ phase = "draining"
    /\ LEN(list) = 3
    /\ list[1].armed
    /\ Len(frontOut) = 1
    /\ drainLog = <<1, 2>>
    /\ \A i \in ListIdx : dropCount[i] = 1

\* The slots the iterator has read: those handed out by next() and
\* next_back() and those its drop has discarded.
Left == {i \in ListIdx : \/ i < Len(frontOut)
                         \/ i >= LEN(list) - Len(backOut)
                         \/ \E j \in 1..Len(drainLog) : drainLog[j] = i}

\* C13: once the list has moved into an iterator, no destructor has run and
\* no slot has been read while nothing was asked of the iterator; afterwards
\* the slots read are exactly those handed out by next()/next_back() or
\* discarded by the iterator's drop, each read once, and a destructor has run
\* only on an element that left its slot that way.
C13_IntoIterDestroysNothing ==
    phase \in {"iter", "draining", "gone", "leaked", "aborted"} =>
      /\ (phase = "iter" /\ frontOut = <<>> /\ backOut = <<>>) =>
           /\ alive = [start |-> 0, end |-> LEN(list)]
           /\ \A i \in Slots : dropCount[i] = 0 /\ takes[i] = 0
      /\ \A i \in Slots : takes[i] = IF i \in Left THEN 1 ELSE 0
      /\ \A i \in Slots : dropCount[i] <= takes[i]

\* Three armed Bombs have moved into an iterator: all three are still in
\* their slots and no destructor has run (an armed one would have panicked).
C13_Witness ==
    /\ phase = "iter"
    /\ LEN(list) = 3
    /\ Armed(list) = {0, 1, 2}
    /\ IterLen = 3
    /\ ~unwinding
    /\ \A i \in ListIdx : dropCount[i] = 0

front == alive.start
back == alive.end

\* C15: as long as an iterator exists, and after its drop, 0 <= front <= back
\* <= N; a slot in [front, back) has never been read and its element is with
\* nobody else, a slot outside has been read exactly once; an iterator that
\* has not been asked for anything has front = 0 and back = N.
C15_AliveRangeInvariant ==
    phase \in {"iter", "draining", "gone", "leaked", "aborted"} =>
      /\ 0 <= front /\ front <= back /\ back <= LEN(list)
      /\ \A i \in front..(back - 1) :
           takes[i] = 0 /\ dropCount[i] = 0 /\ i \notin DOMAIN held
      /\ \A i \in ListIdx \ (front..(back - 1)) : takes[i] = 1
      /\ (frontOut = <<>> /\ backOut = <<>> /\ drainLog = <<>>) =>
           (front = 0 /\ back = LEN(list))

\* Three elements, one taken at either end: the range is [1, 2).
C15_Witness ==
    /\ phase = "iter"
    /\ LEN(list) = 3
    /\ front = 1
    /\ back = 2
    /\ takes = [i \in Slots |-> IF i \in {0, 2} THEN 1 ELSE 0]

\* The direct calls of take_unchecked whose index is not below LEN.
OutOfRange == {k \in 1..Len(rawOut) : rawOut[k].idx >= LEN(list)}

\* C16 as stated: every call of take_unchecked with an index >= LEN panics,
\* returns no value and reads nothing behind the list.
C16_OutOfRangeAlwaysPanics ==
    \A k \in OutOfRange : rawOut[k].kind = "panic" /\ ~rawOut[k].beyond

\* C16: a call of take_unchecked with an index >= LEN panics, returning no
\* value and reading nothing, on Nil in every build and on Cons in a build
\* with debug assertions; on Cons in a build without them the read behind the
\* list is made.
C16_OutOfRangePanicsWhenChecked ==
    \A k \in OutOfRange :
      IF list = nil \/ build = "debug"
      THEN rawOut[k].kind = "panic" /\ ~rawOut[k].beyond
      ELSE rawOut[k].kind # "panic" /\ rawOut[k].beyond

\* A debug build, a list of three, take_unchecked(3): the assertion fails.
C16_Witness ==
    /\ build = "debug"
    /\ LEN(list) = 3
    /\ Len(rawOut) = 1
    /\ rawOut[1].idx = 3
    /\ rawOut[1].kind = "panic"

\* The pairs of direct calls that read the same slot of the list.
SameSlot == {p \in (1..Len(rawOut)) \X (1..Len(rawOut)) :
               /\ p[1] < p[2]
               /\ rawOut[p[1]].idx = rawOut[p[2]].idx
               /\ rawOut[p[1]].idx < LEN(list)}

\* C17 as stated: the second take of a slot panics instead of returning the
\* element again.
C17_SecondTakeCrashes ==
    \A p \in SameSlot : rawOut[p[2]].kind = "panic"

\* C17: take_unchecked does not detect a second take of a slot, in either
\* build: the call returns the element of that slot again, the same value the
\* first take returned.
C17_SecondTakeReturnsSameElement ==
    \A p \in SameSlot :
      /\ rawOut[p[2]].kind = "value"
      /\ rawOut[p[2]].elem = rawOut[p[1]].elem
      /\ rawOut[p[2]].elem = take_unchecked(list, rawOut[p[2]].idx)
      /\ takes[rawOut[p[2]].idx] >= 2

\* A debug build, a list of two, slot 1 taken twice: the same element twice.
C17_Witness ==
    /\ build = "debug"
    /\ LEN(list) = 2
    /\ Len(rawOut) = 2
    /\ rawOut[1].idx = 1 /\ rawOut[2].idx = 1
    /\ rawOut[1].kind = "value" /\ rawOut[2].kind = "value"
    /\ rawOut[2].elem = rawOut[1].elem
    /\ rawOut[1].elem.val = 2

\* C18: in a concurrent traversal the invocations that have not completed are
\* abandoned together: when the traversal has been dropped none of its
\* invocations is pending, there is no state in which one invocation has been
\* abandoned while another is still pending, an abandoned invocation has
\* returned nothing, and after the drop nothing of the traversal changes any
\* more.
C18_AbandonedTogether ==
    /\ [](IsPar =>
           /\ tphase = "dropped" => \A k \in Positions : inv[k] # "pending"
           /\ (\E k \in Positions : inv[k] = "dropped") =>
                (\A k \in Positions : inv[k] # "pending")
           /\ \A k \in Positions : inv[k] = "dropped" => res[k] = NoRes)
    /\ [][(IsPar /\ tphase = "dropped") => UNCHANGED travVars]_vars

\* Three elements in a concurrent traversal: the first invocation completed in
\* the first poll, the other two were pending when the caller dropped it.
C18_Witness ==
    /\ IsPar
    /\ tphase = "dropped"
    /\ inv = <<"done", "dropped", "dropped">>
    /\ tpolls = 1

RECURSIVE PendingAnswers(_)
\* How often the invocations at positions 1..k answered Pending: every answer
\* but the last of an invocation that has completed.
PendingAnswers(k) == IF k = 0 THEN 0 ELSE PendingAnswers(k - 1) + (invPolls[k] - 1)

\* The largest number of polls any invocation has had.
MostPolled == IF N = 0 THEN 1
              ELSE CHOOSE m \in 1..MaxPolls + 1 :
                     /\ \E k \in Positions : invPolls[k] = m
                     /\ \A k \in Positions : invPolls[k] <= m

\* C19: an async traversal is suspended only when an invocation answered
\* Pending in the latest poll, and the invocations that did are still pending;
\* it is never suspended with all its invocations done.  Its polls are exactly
\* those the Pending answers forced: a sequential traversal that completed was
\* polled once more than its invocations answered Pending, a concurrent one as
\* often as its most polled invocation; with no Pending answer at all it
\* completed on its first poll.
C19_SuspendsOnlyOnPending ==
    ~IsSync =>
      /\ tphase = "suspended" =>
           /\ pendingSeen # {}
           /\ \A k \in pendingSeen : inv[k] = "pending"
           /\ \E k \in Positions : inv[k] # "done"
      /\ tphase = "complete" =>
           /\ IsSeq => tpolls = 1 + PendingAnswers(N)
           /\ IsPar => tpolls = MostPolled
           /\ (\A k \in Positions : invPolls[k] = 1) => tpolls = 1

\* Three elements in a concurrent traversal: the second invocation completed
\* in the first poll, the other two answered Pending there and completed in
\* the second poll, with which the traversal completed.
C19_Witness ==
    /\ IsPar
    /\ tphase = "complete"
    /\ tpolls = 2
    /\ invPolls = <<2, 1, 2>>
    /\ pendingSeen = {}

\* How many elements next() and next_back() have yielded.
Yielded == Len(frontOut) + Len(backOut)

\* C20: whatever next() and next_back() calls were made, len() is back - front
\* and is N minus the number of elements yielded, size_hint() is that number
\* as lower and as upper bound, and count() has returned that number.
C20_LenIsRemaining ==
    /\ phase = "iter" =>
         /\ IterLen = back - front
         /\ IterLen = LEN(list) - Yielded
         /\ size_hint = <<LEN(list) - Yielded, [some |-> LEN(list) - Yielded]>>
    /\ counted # -1 => counted = LEN(list) - Yielded

\* Three elements, one taken at either end, then count(): 1.
C20_Witness ==
    /\ LEN(list) = 3
    /\ Len(frontOut) = 1
    /\ Len(backOut) = 1
    /\ counted = 1

\* C21: None is returned only by an exhausted iterator; on an exhausted
\* iterator a call of next() or next_back() returns None, reads no slot, hands
\* out nothing and leaves front and back as they are, no panic starts, and
\* once None has been returned every later call returns None.
C21_ExhaustedReturnsNone ==
    /\ []((phase = "iter" /\ lastRet = "None") => front = back)
    /\ [][(phase = "iter" /\ front = back /\ phase' = "iter") =>
             /\ alive' = alive
             /\ takes' = takes
             /\ frontOut' = frontOut /\ backOut' = backOut
             /\ DOMAIN held' \subseteq DOMAIN held
             /\ lastRet' \in {lastRet, "None"}
             /\ (~unwinding /\ held' = held) => ~unwinding']_vars
    /\ [][(phase = "iter" /\ lastRet = "None" /\ phase' = "iter") => lastRet' = "None"]_vars

\* Three elements, two taken from the front and one from the back, and the
\* call after that returned None.
C21_Witness ==
    /\ phase = "iter"
    /\ lastRet = "None"
    /\ front = back
    /\ Len(frontOut) = 2
    /\ Len(backOut) = 1
    /\ ~unwinding

\* C22: for the list made by nil() alone, as_slice() has no element and LEN
\* is 0; its iterator has len() 0 and front = back from the start, no call of
\* next() or next_back() has returned anything but None, no slot was read and
\* its drop discards nothing.
C22_EmptyList ==
    built = <<>> =>
      /\ LEN(list) = 0
      /\ Len(as_slice(list)) = 0
      /\ phase = "iter" => (IterLen = 0 /\ front = back /\ size_hint = <<0, [some |-> 0]>>)
      /\ lastRet \in {"-", "None"}
      /\ frontOut = <<>> /\ backOut = <<>> /\ drainLog = <<>>
      /\ \A i \in Slots : takes[i] = 0 /\ dropCount[i] = 0
      /\ counted \in {-1, 0}

\* nil().into_iter(), and a call on it has returned None.
C22_Witness ==
    /\ built = <<>>
    /\ phase = "iter"
    /\ lastRet = "None"
    /\ IterLen = 0

\* C23: in the sync and the sequential async traversals the invocation on
\* element k finds in the operation what the invocations on elements 1..k-1
\* recorded, in that order; the operation holds the records of exactly the
\* invocations that have returned, and when the traversal has completed it
\* holds all N elements in positional order.
C23_OperationThreaded ==
    (IsSync \/ IsSeq) =>
      /\ \A k \in Positions : inv[k] # "none" => seen[k] = SubSeq(input, 1, k - 1)
      /\ opState = SubSeq(input, 1, Len(completions))
      /\ tphase = "complete" => opState = input

\* A sequential async traversal of three elements, not all alike, completed
\* on its second poll: the operation has recorded all three in order.
C23_Witness ==
    /\ IsSeq
    /\ tphase = "complete"
    /\ N = 3
    /\ tpolls = 2
    /\ input[1] # input[3]
    /\ opState = input
    /\ seen[3] = <<input[1], input[2]>>

\* The indices the iterator has passed to take_unchecked, from next(),
\* next_back() and the drain of its drop.
Passed == {i \in Slots : takes[i] > 0}

\* C24: every index the iterator has passed to take_unchecked is at least 0
\* and below LEN, and the call with it, in a debug as in a release build, is
\* the plain read of that slot: neither the assertion of the Cons impl nor the
\* panic of the Nil impl, and no read behind the list.
C24_IterIndicesInRange ==
    phase \in {"iter", "draining", "gone", "leaked", "aborted"} =>
      \A i \in Passed :
        /\ 0 <= i /\ i < LEN(list)
        /\ \A b \in {"debug", "release"} :
             TakeUnchecked(list, i, b) =
               {[kind |-> "value", elem |-> take_unchecked(list, i), beyond |-> FALSE]}

\* Three elements: slot 0 taken by next(), slot 2 by next_back() and slot 1
\* by the drain of the drop.
C24_Witness ==
    /\ phase = "gone"
    /\ LEN(list) = 3
    /\ Len(frontOut) = 1
    /\ Len(backOut) = 1
    /\ drainLog = <<1>>
    /\ Passed = {0, 1, 2}

\* The slots whose element's destructor has run.
Destroyed == {i \in ListIdx : dropCount[i] > 0}

\* C25: a slot whose element's destructor has run, to its end or into a
\* panic, is outside [front, back) and was read exactly once; and when the
\* destructor of an element discarded by the drain has panicked out of the
\* drop, the slot of that element is the last the drain read, it and the
\* slots read before are outside the range, and from then on no slot is read
\* or destroyed twice (the slots still in the range are never read).
C25_IndexLeavesRangeFirst ==
    phase \in {"iter", "draining", "gone", "leaked", "aborted"} =>
      /\ \A i \in Destroyed : ~(front <= i /\ i < back) /\ takes[i] = 1
      /\ phase = "leaked" =>
           /\ drainLog # <<>>
           /\ take_unchecked(list, drainLog[Len(drainLog)]).armed
           /\ front = drainLog[Len(drainLog)] + 1
           /\ \A i \in ListIdx : takes[i] <= 1 /\ dropCount[i] <= 1
           /\ \A i \in front..(back - 1) : takes[i] = 0 /\ dropCount[i] = 0

\* Three Bombs, the middle one armed: the drop discarded slot 0, the
\* destructor of slot 1 panicked out of the drop, slot 2 stays in the list.
C25_Witness ==
    /\ phase = "leaked"
    /\ LEN(list) = 3
    /\ drainLog = <<0, 1>>
    /\ front = 2 /\ back = 3
    /\ dropCount[1] = 1
    /\ takes[2] = 0

\* The positions whose invocation returned an error value.
Errs == {k \in Positions : res[k].tag = "Err"}

\* C26: an Err returned by an invocation does not end a map or map-to-list,
\* sync, sequential or concurrent: the traversal is not complete while an
\* element has not been invoked or an invocation has not returned, and when it
\* is complete the operation was called on all N elements, once each, and the
\* result has N positions with the Err at the position of its element.
C26_NoShortCircuitOnErr ==
    (scheme # "for_each" /\ Errs # {}) =>
      /\ tphase # "panicked" => failure = NoPanic
      /\ tphase = "complete" =>
           /\ \A j \in Positions : inv[j] = "done"
           /\ Len(calls) = N
           /\ \A j \in Positions : calls[j].pos = j
           /\ Len(result.items) = N
           /\ \A k \in Errs : result.items[k] = [tag |-> "Err", arg |-> input[k]]
           /\ \A j \in Positions \ Errs : result.items[j] = [tag |-> "Ok", arg |-> input[j]]

\* A sequential map-to-list over three elements whose second invocation
\* returned Err: the third element was invoked all the same.
C26_Witness ==
    /\ scheme = "map_to_list"
    /\ IsSeq
    /\ tphase = "complete"
    /\ input = <<2, 1, 2>>
    /\ Errs = {2}
    /\ Len(calls) = 3
    /\ result.items[3].tag = "Ok"

\* C27: a concurrent traversal that has not been polled has issued nothing.
\* While its first poll runs, the positions before the cursor have been issued
\* and polled once, in the order of the positions, the one at the cursor has
\* not been polled and those behind it have not been issued; a traversal that
\* went through its first poll has issued all N.  While a later poll runs, the
\* pending positions before the cursor have been polled in this poll and those
\* from the cursor on not yet: the poll goes through them in positional order.
C27_IssueAndPollOrder ==
    IsPar =>
      /\ tphase = "created" =>
           (calls = <<>> /\ tpolls = 0 /\ \A k \in Positions : inv[k] = "none")
      /\ \A j \in 1..Len(calls) : calls[j] = [pos |-> j, arg |-> input[j]]
      /\ (tphase = "polling" /\ tpolls = 1) =>
           /\ \A k \in Positions : k < cursor => (inv[k] # "none" /\ invPolls[k] = 1)
           /\ \A k \in Positions : k = cursor => invPolls[k] = 0
           /\ \A k \in Positions : k > cursor => (inv[k] = "none" /\ invPolls[k] = 0)
      /\ tphase \in {"suspended", "complete"} => Len(calls) = N
      /\ (tphase = "polling" /\ tpolls > 1) =>
           /\ Len(calls) = N
           /\ \A k \in Positions :
                inv[k] = "pending" => invPolls[k] = IF k < cursor THEN tpolls ELSE tpolls - 1

\* Three elements, second poll under way: the first invocation was polled
\* again and is still pending, the second completed in the first poll and is
\* passed over, the third is the next to be polled.
C27_Witness ==
    /\ IsPar
    /\ tphase = "polling"
    /\ tpolls = 2
    /\ cursor = 3
    /\ inv = <<"pending", "done", "pending">>
    /\ invPolls = <<2, 1, 1>>

====
